---- MODULE Spec2Model ----
(***************************************************************************)
(* Model of setup.py (yubikey_setup): the dependency provisioning loop     *)
(* check_deps with its confirmation prompts, the one-time pre-install      *)
(* step, the command runner, environment detection, and the workspace      *)
(* directory that brackets main().                                         *)
(*                                                                         *)
(* Text is modelled structurally: platform strings are sequences of        *)
(* one-character strings, shell commands are sequences of words, and       *)
(* paths inside the workspace are sequences of path components relative    *)
(* to TMP_DIR (the empty sequence is TMP_DIR itself).                      *)
(***************************************************************************)
EXTENDS Integers, Sequences, FiniteSets, TLC

\* ------------------------------------------------------------------ bounds

\* Passes of the "while True" loop of check_deps that the model follows.
MaxIter == 3

\* ------------------------------------------------------------ text helpers

IsPrefix(s, t) == Len(s) <= Len(t) /\ SubSeq(t, 1, Len(s)) = s

Contains(s, sub) ==
    \E i \in 0..(Len(s) - Len(sub)) : SubSeq(s, i + 1, i + Len(sub)) = sub

UpperCase == [D |-> "d", L |-> "l", N |-> "n", O |-> "o", S |-> "s", W |-> "w",
              M |-> "m", P |-> "p", U |-> "u", T |-> "t"]

LowerChar(c) == IF c \in DOMAIN UpperCase THEN UpperCase[c] ELSE c

\* str.lower()
Lower(s) == [i \in 1..Len(s) |-> LowerChar(s[i])]

\* str.split(sep) for a one-character separator: never returns an empty list.
RECURSIVE SplitFrom(_, _, _, _)
SplitFrom(s, sep, i, cur) ==
    IF i > Len(s) THEN <<cur>>
    ELSE IF s[i] = sep THEN <<cur>> \o SplitFrom(s, sep, i + 1, <<>>)
    ELSE SplitFrom(s, sep, i + 1, Append(cur, s[i]))

Split(s, sep) == SplitFrom(s, sep, 1, <<>>)

\* ------------------------------------------------------- module constants

LINUX == <<"l", "i", "n", "u", "x">>
TAILS == <<"t", "a", "i", "l", "s">>
DEBIAN == <<"D", "e", "b", "i", "a", "n">>
AMNESIA == "amnesia"

SUPPORTED_OS == {LINUX}
RECOMENDED_DISTROS == {TAILS}

YES == "Yes"
NO == "No"

\* KeyboardInterrupt raised while the process blocks, EOFError of input().
INT == "INT"
EOF == "EOF"

\* A value that is None, a single string, or a tuple/list of strings.
None == [kind |-> "none", val |-> <<>>]
Str(c) == [kind |-> "str", val |-> c]
List(cs) == [kind |-> "list", val |-> cs]

\* The install recipe of ykman on Tails (a tuple of 13 entries, 5 of them
\* comments); long arguments are abbreviated, the word structure is kept.
YkmanTails ==
    << <<"#", "Adding", "keys">>,
       <<"gpg", "--receive-keys", "9E885C">>,
       <<"gpg", "--receive-keys", "57a9de">>,
       <<"#", "Download">>,
       <<"mkdir", "-p", "ykman">>,
       <<"torsocks", "wget", "-O", "ykman/AppImage">>,
       <<"torsocks", "wget", "-O", "ykman/AppImage.sig">>,
       <<"#", "Verify">>,
       <<"gpg", "--verify", "ykman/AppImage.sig">>,
       <<"#", "Make", "executable">>,
       <<"chmod", "+x", "ykman/AppImage">>,
       <<"#", "Move">>,
       <<"sudo", "mv", "ykman/AppImage", "/bin/ykman">> >>

\* The package registry. check is a string (expected code 0) or a
\* (command, expected code) pair; install maps distro keys to recipes.
PKGS ==
    << [name |-> "gnupg",
        check |-> Str(<<"gpg", "--version">>),
        install |-> [d \in {} |-> None]],
       [name |-> "argon2",
        check |-> [kind |-> "pair", val |-> <<"argon2", "-h">>, code |-> 1],
        install |-> [d \in {TAILS} |->
                        Str(<<"sudo", "apt", "install", "argon2">>)]],
       [name |-> "ykman",
        check |-> Str(<<"ykman", "--help">>),
        install |-> [d \in {TAILS} |-> List(YkmanTails)]] >>

PRE_INSTALL == [d \in {TAILS} |-> Str(<<"sudo", "apt", "update", "">>)]

\* ------------------------------------------------------ environment detector

\* What the host reports: platform.system(), platform.version(), whether
\* /etc/tails and /etc/amnesia are directories, and os.getlogin(), which
\* raises OSError when the process has no controlling terminal.
Systems == { <<"L", "i", "n", "u", "x">>, <<"W", "i", "n">> }

Versions ==
    { <<"#", "1", " ", "D", "e", "b", "i", "a", "n", " ", "6", "-", "1", " ", "x">>,
      <<"#", "4", "-", "U", "b", "u", " ", "S", "M", "P">>,
      <<"#", "1", " ", "S", "M", "P">>,
      <<"1", "0">> }

Logins == {AMNESIA, "user", "OSError"}

\* get_os_info(): raised is the OSError of os.getlogin(), which is called
\* only after the Debian marker and both directories were found.
get_os_info(sys, ver, tailsDir, amnesiaDir, login) ==
    LET system == Lower(sys)
        parts == Split(ver, "-")
    IN  IF system = LINUX
        THEN IF Contains(ver, DEBIAN) /\ tailsDir /\ amnesiaDir /\ login = "OSError"
             THEN [raised |-> TRUE, os |-> system, distro |-> <<>>]
             ELSE IF Contains(ver, DEBIAN) /\ tailsDir /\ amnesiaDir /\ login = AMNESIA
             THEN [raised |-> FALSE, os |-> LINUX, distro |-> TAILS]
             ELSE IF Len(parts) < 2
             THEN [raised |-> FALSE, os |-> system, distro |-> parts[1]]
             ELSE [raised |-> FALSE, os |-> system,
                   distro |-> Lower(Split(parts[2], " ")[1])]
        ELSE [raised |-> FALSE, os |-> system, distro |-> Lower(ver)]

\* check_os(): "unsupported", "ask" (supported but not recommended) or "ok".
check_os(info) ==
    IF info.os \notin SUPPORTED_OS THEN "unsupported"
    ELSE IF info.distro \notin RECOMENDED_DISTROS THEN "ask"
    ELSE "ok"

\* ------------------------------------------------------------ command text

\* Words of a command are what lies between its spaces, so a leading or a
\* trailing space shows as an empty first or last word.
RECURSIVE LStrip(_)
LStrip(cmd) ==
    IF cmd # <<>> /\ Head(cmd) = "" THEN LStrip(Tail(cmd)) ELSE cmd

RECURSIVE RStrip(_)
RStrip(cmd) ==
    IF cmd # <<>> /\ cmd[Len(cmd)] = ""
    THEN RStrip(SubSeq(cmd, 1, Len(cmd) - 1)) ELSE cmd

Strip(cmd) == RStrip(LStrip(cmd))

StartsWithHash(cmd) == cmd # <<>> /\ Head(cmd) = "#"

\* startswith("sudo "): the word sudo followed by a space.
StartsWithSudo(cmd) == Len(cmd) > 1 /\ Head(cmd) = "sudo"

\* cmd.replace('sudo ', '', 1)
RemoveFirstSudo(cmd) ==
    IF \E i \in 1..(Len(cmd) - 1) : cmd[i] = "sudo"
    THEN LET i == CHOOSE j \in 1..(Len(cmd) - 1) :
                    cmd[j] = "sudo" /\ \A k \in 1..(j - 1) : cmd[k] # "sudo"
         IN  SubSeq(cmd, 1, i - 1) \o SubSeq(cmd, i + 1, Len(cmd))
    ELSE cmd

\* isinstance(cmds, str): cmds = (cmds,)
AsTuple(cmds) == IF cmds.kind = "str" THEN <<cmds.val>> ELSE cmds.val

\* One line of the preview that ask_execute builds for a command.
PreviewLine(cmd) ==
    IF StartsWithHash(LStrip(cmd)) THEN [style |-> "grey", text |-> cmd]
    ELSE IF StartsWithSudo(LStrip(cmd))
    THEN [style |-> "sudo", text |-> RemoveFirstSudo(cmd)]
    ELSE [style |-> "plain", text |-> cmd]

\* The prompt of ask_execute(cmds) for cmds that is not None.
Preview(cmds) ==
    LET t == AsTuple(cmds) IN [i \in 1..Len(t) |-> PreviewLine(t[i])]

\* Variant: run_cmds without its comment test.
IsComment_Never(cmd) == FALSE

\* Variant: the entry is not stripped before the test.
IsComment_NoStrip(cmd) == StartsWithHash(cmd)

\* Whether run_cmds skips an entry.
IsComment(cmd) == StartsWithHash(Strip(cmd))

\* ------------------------------------------------------------- the planner

RECURSIVE Filter(_, _)
\* Variant: a package counts as installable as soon as it has any recipe.
chek_can_install_AnyRecipe(deps, distro) ==
    [auto |-> Filter(deps, [i \in 1..Len(deps) |-> DOMAIN deps[i].install # {}]),
     manual |-> Filter(deps, [i \in 1..Len(deps) |-> DOMAIN deps[i].install = {}])]

\* The candidates split into those with a recipe for the distro and the rest.
chek_can_install(deps, distro) ==
    [auto |-> Filter(deps, [i \in 1..Len(deps) |-> distro \in DOMAIN deps[i].install]),
     manual |-> Filter(deps, [i \in 1..Len(deps) |-> distro \notin DOMAIN deps[i].install])]

Filter(s, keep) ==
    IF s = <<>> THEN <<>>
    ELSE (IF keep[1] THEN <<Head(s)>> ELSE <<>>)
         \o Filter(Tail(s), Tail(keep))

\* Variant: install_deps losing the recipes that are a single string.
RECURSIVE Flatten_DropsStr(_, _)
Flatten_DropsStr(deps, distro) ==
    IF deps = <<>> THEN <<>>
    ELSE (IF Head(deps).install[distro].kind = "str" THEN <<>>
          ELSE Head(deps).install[distro].val)
         \o Flatten_DropsStr(Tail(deps), distro)

\* install_deps: the flattened command list of the packages in deps.
RECURSIVE Flatten(_, _)
Flatten(deps, distro) ==
    IF deps = <<>> THEN <<>>
    ELSE AsTuple(Head(deps).install[distro]) \o Flatten(Tail(deps), distro)

\* The probe of a package: its command and the exit code it must return.
CheckCmd(pkg) == pkg.check.val
ReqCode(pkg) == IF pkg.check.kind = "str" THEN 0 ELSE pkg.check.code

\* ------------------------------------------------------------ the workspace

\* Permission bits of a mode; os.makedirs(TMP_DIR, mode=0o700) asks for the
\* three owner bits and the process umask removes the bits it names.
OwnerBits == {"u_r", "u_w", "u_x"}
MakedirsMode == OwnerBits
Umasks == { {"g_w", "o_w"}, {"o_w"}, {"g_r", "g_w", "g_x", "o_r", "o_w", "o_x"} }

\* Entries of the workspace, by path relative to TMP_DIR.
ROOT == "."
Node(p, par, k) == [path |-> p, parent |-> par, kind |-> k]
RootNode == Node(ROOT, "", "dir")
ParentOf(p) == IF p = "ykman" THEN ROOT ELSE "ykman"

Exists(p, tree) == \E n \in tree : n.path = p
IsDir(p, tree) == \E n \in tree : n.path = p /\ n.kind = "dir"
IsFile(p, tree) == \E n \in tree : n.path = p /\ n.kind = "file"
ChildPaths(p, k, tree) == {n.path : n \in {m \in tree : m.parent = p /\ m.kind = k}}

RECURSIVE Under(_, _, _)
\* Whether entry n is p or lies beneath p.
Under(n, p, tree) ==
    \/ n.path = p
    \/ \E m \in tree : m.path = n.parent /\ Under(m, p, tree)

\* A listing order of a set of paths.
RECURSIVE Listing(_)
Listing(S) ==
    IF S = {} THEN <<>>
    ELSE LET x == CHOOSE y \in S : TRUE IN <<x>> \o Listing(S \ {x})

\* shutil.rmtree(path) under "except FileNotFoundError: pass": a missing
\* path is ignored, a regular file raises NotADirectoryError.
RmTree(p, tree) ==
    IF ~Exists(p, tree) THEN [raised |-> FALSE, tree |-> tree]
    ELSE IF IsFile(p, tree) THEN [raised |-> TRUE, tree |-> tree]
    ELSE [raised |-> FALSE, tree |-> {n \in tree : ~Under(n, p, tree)}]

\* fs_del(path): shred[f] says what "shred -f -u -z f" does to file f:
\* "ok" unlinks it, "fail" and "absent" (no such utility) leave it, and
\* "INT" is the user interrupting the wait for it.
RECURSIVE fs_del(_, _, _)
RECURSIVE FsDelEach(_, _, _)
fs_del(p, tree, shred) ==
    IF IsDir(p, tree)
    THEN LET r == FsDelEach(Listing(ChildPaths(p, "dir", tree))
                            \o Listing(ChildPaths(p, "file", tree)), tree, shred)
         IN  IF r.raised THEN r ELSE RmTree(p, r.tree)
    ELSE IF IsFile(p, tree) /\ shred[p] = INT
    THEN [raised |-> TRUE, tree |-> tree]
    ELSE RmTree(p, IF IsFile(p, tree) /\ shred[p] = "ok"
                    THEN {n \in tree : n.path # p} ELSE tree)

FsDelEach(ps, tree, shred) ==
    IF ps = <<>> THEN [raised |-> FALSE, tree |-> tree]
    ELSE LET r == fs_del(Head(ps), tree, shred)
         IN  IF r.raised THEN r ELSE FsDelEach(Tail(ps), r.tree, shred)

ShredOutcomes == {"ok", "fail", "absent"}
FilePaths(tree) == {n.path : n \in {m \in tree : m.kind = "file"}}

\* What a command of the registry leaves in the workspace; done says that it
\* ran to the end and returned 0. An output file of wget may or may not
\* exist when the download failed or was interrupted.
CmdEffect(cmd, done, tree) ==
    IF Head(cmd) = "mkdir"
    THEN IF done THEN {tree \cup {Node(cmd[3], ParentOf(cmd[3]), "dir")}} ELSE {tree}
    ELSE IF Head(cmd) = "torsocks" /\ Exists(ParentOf(cmd[4]), tree)
    THEN LET made == tree \cup {Node(cmd[4], ParentOf(cmd[4]), "file")}
         IN  IF done THEN {made} ELSE {tree, made}
    ELSE IF Head(cmd) = "sudo" /\ cmd[2] = "mv"
    THEN IF done THEN {{n \in tree : n.path # cmd[3]}} ELSE {tree}
    ELSE {tree}

\* ------------------------------------------------------------------- state

VARIABLES
    pc,                  \* where the process is
    ws, wsMode,          \* entries of the workspace directory, and its mode
    osinfo,              \* the memoized result of get_os_info()
    PRE_INSTALL_RUNNED,  \* the module-level singleton flag
    iter,                \* passes of the loop of check_deps started so far
    recheck, to_install, pi, plan,   \* locals of check_deps
    cmds, ci, preview,   \* the sequence run_cmds walks, its position, the
                         \* prompt ask_execute last built
    cdResult, initResult, mainEnd,   \* how check_deps, init and main ended
    out,                 \* kinds of message printed so far
    last,                \* the last step: where it was taken, what the host
                         \* or the user did
    approved,            \* the preview the user approved in this pass
    runlog,              \* commands executed since the last approval
    iterAsked, asked,    \* prompts check_deps issued: this pass, ever
    iterRan,             \* whether check_deps ran a command in this pass
    preRuns, batches,    \* pre-install commands run, install batches begun
    bannerIters,         \* passes that printed the dependency list
    sat,                 \* packages a stable host would report satisfied
    deviated,            \* whether the host or the user left the happy path
    failure,             \* the step that made check_deps return False
    call, ret            \* a function applied on its own: arguments, result

vars == <<pc, ws, wsMode, osinfo, PRE_INSTALL_RUNNED, iter, recheck, to_install,
          pi, plan, cmds, ci, preview, cdResult, initResult, mainEnd, out, last,
          approved, runlog, iterAsked, asked, iterRan, preRuns, batches,
          bannerIters, sat, deviated, failure, call, ret>>

wsVars == <<ws, wsMode>>
loopVars == <<iter, recheck, to_install, pi, plan>>
runVars == <<cmds, ci, preview>>
passVars == <<approved, runlog, iterAsked, asked, iterRan>>
countVars == <<preRuns, batches, bannerIters, sat, failure>>
fnVars == <<call, ret>>

NoInfo == [os |-> <<>>, distro |-> <<>>]
EmptyPlan == [auto |-> <<>>, manual |-> <<>>]
NoPreview == <<>>
NoCall == [fn |-> "none"]

\* Exit codes a command may return.
Codes == {0, 1, 127}
\* Lines a user may type at a prompt.
Lines == {YES, NO, "y", "yes", "no", ""}

\* The module as loaded, before "__main__" acts.
Loaded ==
    /\ pc = "start"
    /\ ws = {}
    /\ wsMode = {}
    /\ osinfo = NoInfo
    /\ PRE_INSTALL_RUNNED = FALSE
    /\ iter = 0
    /\ recheck = FALSE
    /\ to_install = <<>>
    /\ pi = 0
    /\ plan = EmptyPlan
    /\ cmds = <<>>
    /\ ci = 0
    /\ preview = NoPreview
    /\ cdResult = "none"
    /\ initResult = "none"
    /\ mainEnd = "running"
    /\ out = {}
    /\ last = [at |-> "init", ev |-> "step"]
    /\ approved = NoPreview
    /\ runlog = <<>>
    /\ iterAsked = {}
    /\ asked = {}
    /\ iterRan = FALSE
    /\ preRuns = 0
    /\ batches = 0
    /\ bannerIters = {}
    /\ sat = {}
    /\ deviated = FALSE
    /\ failure = "none"

Init ==
    /\ Loaded
    /\ call = NoCall
    /\ ret = NoCall

\* ----------------------------------------------------------- step fragments

Step(ev, dev) ==
    /\ last' = [at |-> pc, ev |-> ev]
    /\ deviated' = (deviated \/ dev)

\* main() ends: "returned", "interrupted" (KeyboardInterrupt caught in the
\* with block) or "error" (any other exception, which the with statement
\* throws into tmp_dir() at its yield, where nothing catches it).
EndMain(how, cd, ini, msgs) ==
    /\ pc' = IF how = "error" THEN "crashed" ELSE "release"
    /\ mainEnd' = how
    /\ cdResult' = cd
    /\ initResult' = ini
    /\ out' = out \cup msgs

\* Variant: init() without its try/except, the interruption leaves main().
DepsInterrupted_Propagates ==
    EndMain("interrupted", "interrupted", "none", {"INTERRUPTED"})

\* except KeyboardInterrupt in init(): init returns True and main goes on.
DepsInterrupted ==
    EndMain("returned", "interrupted", "true", {"DEPS_INTERRUPTED", "BEGIN_MSG"})

\* The top of the while loop of check_deps.
StartPass(n) ==
    /\ pc' = "probe"
    /\ iter' = n
    /\ pi' = 1
    /\ to_install' = <<>>
    /\ approved' = NoPreview
    /\ iterAsked' = {}
    /\ iterRan' = FALSE

\* Variant: ask() compares without regard to case.
ask_AnyCase(inp) ==
    IF inp \in {YES, "yes"} THEN "true"
    ELSE IF inp \in {NO, "no"} THEN "false"
    ELSE "again"

\* One turn of the loop of ask() on the line read: the value it returns, or
\* "again" when it prints the hint and prompts once more.
ask(inp) ==
    IF inp = YES THEN "true"
    ELSE IF inp = NO THEN "false"
    ELSE "again"

\* A prompt of check_deps is issued.
Ask(kind) ==
    /\ iterAsked' = iterAsked \cup {kind}
    /\ asked' = asked \cup {kind}

\* -------------------------------------------------------- process start-up

\* with tmp_dir(): os.makedirs(TMP_DIR, mode=0o700), then main() starts.
Acquire ==
    /\ pc = "start"
    /\ \E umask \in Umasks :
          /\ ws' = {RootNode}
          /\ wsMode' = MakedirsMode \ umask
    /\ pc' = "check_os"
    /\ Step("step", FALSE)
    /\ UNCHANGED <<osinfo, PRE_INSTALL_RUNNED, loopVars, runVars, cdResult,
                   initResult, mainEnd, out, passVars, countVars>>
    /\ UNCHANGED fnVars

\* check_deps() is entered: recheck = False, first pass.
EnterCheckDeps ==
    /\ StartPass(1)
    /\ recheck' = FALSE
    /\ UNCHANGED <<plan, cdResult, initResult, mainEnd, out, runlog, asked>>

\* init() calls check_os(), which calls get_os_info() for the first time.
DetectOS ==
    /\ pc = "check_os"
    /\ \E sys \in Systems, ver \in Versions, tailsDir \in BOOLEAN,
          amnesiaDir \in BOOLEAN, login \in Logins :
          LET r == get_os_info(sys, ver, tailsDir, amnesiaDir, login)
              info == [os |-> r.os, distro |-> r.distro]
          IN  IF r.raised
              THEN /\ EndMain("error", "none", "none", {})
                   /\ Step("OSError", TRUE)
                   /\ UNCHANGED <<osinfo, loopVars, passVars>>
              ELSE /\ osinfo' = info
                   /\ Step("step", FALSE)
                   /\ CASE check_os(info) = "unsupported" ->
                             /\ EndMain("returned", "none", "false",
                                        {"WRONG_OS_MSG", "RECOMMEND_OS_MSG"})
                             /\ UNCHANGED <<loopVars, passVars>>
                        [] check_os(info) = "ask" ->
                             /\ pc' = "ask_os"
                             /\ out' = out \cup {"RECOMMEND_OS_MSG"}
                             /\ UNCHANGED <<cdResult, initResult, mainEnd,
                                            loopVars, passVars>>
                        [] OTHER -> EnterCheckDeps
    /\ UNCHANGED <<wsVars, PRE_INSTALL_RUNNED, runVars, countVars>>
    /\ UNCHANGED fnVars

\* ask("Do your want to continue on current system") in check_os().
AskOs ==
    /\ pc = "ask_os"
    /\ \E inp \in Lines \cup {INT, EOF} :
          /\ Step(inp, FALSE)
          /\ CASE ask(inp) = "true" -> EnterCheckDeps
               [] ask(inp) = "false" ->
                    /\ EndMain("returned", "none", "false", {})
                    /\ UNCHANGED <<loopVars, passVars>>
               [] inp = INT ->
                    /\ EndMain("interrupted", "none", "none", {"INTERRUPTED"})
                    /\ UNCHANGED <<loopVars, passVars>>
               [] inp = EOF ->
                    /\ EndMain("error", "none", "none", {})
                    /\ UNCHANGED <<loopVars, passVars>>
               [] OTHER ->
                    UNCHANGED <<pc, cdResult, initResult, mainEnd, out,
                                loopVars, passVars>>
    /\ UNCHANGED <<wsVars, osinfo, PRE_INSTALL_RUNNED, runVars, countVars>>
    /\ UNCHANGED fnVars

\* ------------------------------------------------------- the loop: probing

\* A package is satisfied iff its probe returns the expected code.
Satisfied(code, req) == code = req

\* run_cmd(check_cmd, False) for package pi of the for loop of check_deps.
Probe ==
    /\ pc = "probe"
    /\ \/ \E code \in Codes :
             LET pkg == PKGS[pi]
                 ok == Satisfied(code, ReqCode(pkg))
             IN  /\ to_install' = IF ok THEN to_install ELSE Append(to_install, pkg)
                 /\ sat' = IF ok THEN sat \cup {pkg.name} ELSE sat \ {pkg.name}
                 /\ Step(ToString(code), ~ok /\ pkg.name \in sat)
                 /\ IF pi = Len(PKGS)
                    THEN pc' = "probed" /\ pi' = pi
                    ELSE pc' = pc /\ pi' = pi + 1
                 /\ UNCHANGED <<cdResult, initResult, mainEnd, out>>
       \/ /\ DepsInterrupted
          /\ Step(INT, TRUE)
          /\ UNCHANGED <<to_install, pi, sat>>
    /\ UNCHANGED <<wsVars, osinfo, PRE_INSTALL_RUNNED, iter, recheck, plan, runVars,
                   passVars, preRuns, batches, bannerIters, failure>>
    /\ UNCHANGED fnVars

\* Variants: the test inverted, and the test off by one.
AllSatisfied_Inverted(missing) == Len(missing) # 0
AllSatisfied_OffByOne(missing) == Len(missing) <= 1

\* if len(to_install) == 0: return True
AllSatisfied(missing) == Len(missing) = 0

\* Variant: the pass is blocked only when nothing can be installed.
ManualBlocked_OnlyIfNoAuto(p) == Len(p.auto) = 0

\* if len(manual) != 0: no install is offered in this pass
ManualBlocked(p) == Len(p.manual) # 0

\* Variant: the list of dependencies is printed in every pass.
ShowsList_Always(flag) == TRUE

\* if not recheck: print the dependencies this pass found unsatisfied.
ShowsList(flag) == ~flag

\* Lines 255-275 of check_deps: return True, or print the list, partition
\* the missing packages and issue the prompt of the branch taken.
Plan ==
    /\ pc = "probed"
    /\ IF AllSatisfied(to_install)
       THEN /\ EndMain("returned", "true", "true", {"BEGIN_MSG"})
            /\ Step("step", FALSE)
            /\ UNCHANGED <<recheck, plan, bannerIters, iterAsked, asked>>
       ELSE LET p == chek_can_install(to_install, osinfo.distro)
            IN  /\ plan' = p
                /\ bannerIters' = IF ShowsList(recheck)
                                  THEN bannerIters \cup {iter}
                                  ELSE bannerIters
                /\ Step("step", ManualBlocked(p))
                /\ IF ManualBlocked(p)
                   THEN recheck' = TRUE /\ pc' = "ack" /\ Ask("ack")
                   ELSE recheck' = FALSE /\ pc' = "ask_install" /\ Ask("ask_install")
                /\ UNCHANGED <<cdResult, initResult, mainEnd, out>>
    /\ UNCHANGED <<wsVars, osinfo, PRE_INSTALL_RUNNED, iter, to_install, pi, runVars,
                   approved, runlog, iterRan, preRuns, batches, sat, failure>>
    /\ UNCHANGED fnVars

\* ask_continue(): any line goes on to the next pass of the loop.
Acknowledge ==
    /\ pc = "ack"
    /\ \/ /\ iter < MaxIter
          /\ StartPass(iter + 1)
          /\ Step("line", FALSE)
          /\ UNCHANGED <<recheck, plan, cdResult, initResult, mainEnd, out,
                         runlog, asked>>
       \/ /\ DepsInterrupted
          /\ Step(INT, TRUE)
          /\ UNCHANGED <<loopVars, passVars>>
       \/ /\ EndMain("error", "raised", "none", {})
          /\ Step(EOF, TRUE)
          /\ UNCHANGED <<loopVars, passVars>>
    /\ UNCHANGED <<wsVars, osinfo, PRE_INSTALL_RUNNED, runVars, countVars>>
    /\ UNCHANGED fnVars

\* ------------------------------------------------- the loop: confirm and run

\* install_deps() up to its ask_execute(commands): commands is a list, so
\* the gate always prompts.
BeginInstall ==
    LET commands == Flatten(plan.auto, osinfo.distro)
    IN  /\ pc' = "preview_install"
        /\ cmds' = commands
        /\ ci' = 0
        /\ preview' = Preview(List(commands))
        /\ Ask("preview_install")

\* "if failed": print the failure and return False from check_deps.
Failed(why) ==
    /\ EndMain("returned", "false", "false", {"FAILED"})
    /\ failure' = why

\* Variant: run_pre_install without its flag test.
PreInstallDone_Never(flag) == FALSE

\* if PRE_INSTALL_RUNNED: return True
PreInstallDone(flag) == flag

\* ask("Do you want to install them?"); on Yes run_pre_install(distro) runs
\* up to its prompt, or through to the prompt of install_deps.
AskInstall ==
    /\ pc = "ask_install"
    /\ \E inp \in Lines \cup {INT, EOF} :
          /\ Step(inp, inp # YES)
          /\ CASE ask(inp) = "true" ->
                    /\ PRE_INSTALL_RUNNED' = TRUE
                    /\ IF PreInstallDone(PRE_INSTALL_RUNNED)
                          \/ osinfo.distro \notin DOMAIN PRE_INSTALL
                          \/ PRE_INSTALL[osinfo.distro] = None
                       THEN BeginInstall
                       ELSE /\ pc' = "preview_pre"
                            /\ cmds' = AsTuple(PRE_INSTALL[osinfo.distro])
                            /\ ci' = 0
                            /\ preview' = Preview(PRE_INSTALL[osinfo.distro])
                            /\ Ask("preview_pre")
                    /\ UNCHANGED <<cdResult, initResult, mainEnd, out>>
               [] ask(inp) = "false" ->
                    /\ pc' = "ack"
                    /\ Ask("ack")
                    /\ UNCHANGED <<PRE_INSTALL_RUNNED, runVars, cdResult,
                                   initResult, mainEnd, out>>
               [] inp = INT ->
                    /\ DepsInterrupted
                    /\ UNCHANGED <<PRE_INSTALL_RUNNED, runVars, iterAsked, asked>>
               [] inp = EOF ->
                    /\ EndMain("error", "raised", "none", {})
                    /\ UNCHANGED <<PRE_INSTALL_RUNNED, runVars, iterAsked, asked>>
               [] OTHER ->
                    UNCHANGED <<pc, PRE_INSTALL_RUNNED, runVars, cdResult,
                                initResult, mainEnd, out, iterAsked, asked>>
    /\ UNCHANGED <<wsVars, osinfo, loopVars, approved, runlog, iterRan, countVars>>
    /\ UNCHANGED fnVars

\* The answer to a preview of ask_execute; on Yes run_cmds starts.
AnswerPreview(running, declined) ==
    \E inp \in Lines \cup {INT, EOF} :
       /\ Step(inp, inp # YES)
       /\ CASE ask(inp) = "true" ->
                 /\ pc' = running
                 /\ ci' = 1
                 /\ approved' = preview
                 /\ runlog' = <<>>
                 /\ UNCHANGED <<cdResult, initResult, mainEnd, out, failure>>
            [] ask(inp) = "false" ->
                 /\ Failed(declined)
                 /\ UNCHANGED <<ci, approved, runlog>>
            [] inp = INT ->
                 /\ DepsInterrupted
                 /\ UNCHANGED <<ci, approved, runlog, failure>>
            [] inp = EOF ->
                 /\ EndMain("error", "raised", "none", {})
                 /\ UNCHANGED <<ci, approved, runlog, failure>>
            [] OTHER ->
                 UNCHANGED <<pc, ci, approved, runlog, cdResult, initResult,
                             mainEnd, out, failure>>

\* ask_execute(PRE_INSTALL[distro]) in run_pre_install().
PreviewPre ==
    /\ pc = "preview_pre"
    /\ AnswerPreview("run_pre", "pre_declined")
    /\ UNCHANGED <<wsVars, osinfo, PRE_INSTALL_RUNNED, loopVars, cmds, preview,
                   iterAsked, asked, iterRan, preRuns, batches, bannerIters, sat>>
    /\ UNCHANGED fnVars

\* ask_execute(commands) in install_deps().
PreviewInstall ==
    /\ pc = "preview_install"
    /\ AnswerPreview("run_install", "install_declined")
    /\ batches' = IF pc' = "run_install" THEN batches + 1 ELSE batches
    /\ UNCHANGED <<wsVars, osinfo, PRE_INSTALL_RUNNED, loopVars, cmds, preview,
                   iterAsked, asked, iterRan, preRuns, bannerIters, sat>>
    /\ UNCHANGED fnVars

\* Variant: only exit code 1 counts as a failure.
RunFailed_OnlyOne(code) == code = 1

\* if code != 0: return code
RunFailed(code) == code # 0

\* One turn of "for cmd in cmds" of run_cmds, where the entry is a command:
\* run_cmd(cmd) returns a code or is interrupted.
Execute(failed) ==
    /\ runlog' = Append(runlog, cmds[ci])
    /\ iterRan' = TRUE
    /\ \/ \E code \in Codes : \E t \in CmdEffect(cmds[ci], code = 0, ws) :
             /\ ws' = t
             /\ Step(ToString(code), code # 0)
             /\ IF RunFailed(code)
                THEN Failed(failed) /\ ci' = ci
                ELSE /\ ci' = ci + 1
                     /\ UNCHANGED <<pc, cdResult, initResult, mainEnd, out, failure>>
       \/ \E t \in CmdEffect(cmds[ci], FALSE, ws) :
             /\ ws' = t
             /\ Step(INT, TRUE)
             /\ DepsInterrupted
             /\ UNCHANGED <<ci, failure>>

\* A comment entry: continue.
SkipComment ==
    /\ ci' = ci + 1
    /\ Step("skip", FALSE)
    /\ UNCHANGED <<pc, ws, runlog, iterRan, cdResult, initResult, mainEnd, out,
                   failure>>

\* run_cmds(PRE_INSTALL[distro]) in run_pre_install(); when it returns 0,
\* check_deps goes on to install_deps().
RunPre ==
    /\ pc = "run_pre"
    /\ IF ci > Len(cmds)
       THEN /\ BeginInstall
            /\ Step("step", FALSE)
            /\ UNCHANGED <<ws, runlog, iterRan, preRuns, cdResult, initResult,
                           mainEnd, out, failure>>
       ELSE /\ UNCHANGED <<cmds, preview, iterAsked, asked>>
            /\ IF IsComment(cmds[ci])
               THEN SkipComment /\ UNCHANGED preRuns
               ELSE Execute("pre_failed") /\ preRuns' = preRuns + 1
    /\ UNCHANGED <<wsMode, osinfo, PRE_INSTALL_RUNNED, loopVars, approved, batches,
                   bannerIters, sat>>
    /\ UNCHANGED fnVars

\* run_cmds(commands) in install_deps(); when it returns 0, the loop of
\* check_deps starts its next pass.
RunInstall ==
    /\ pc = "run_install"
    /\ IF ci > Len(cmds)
       THEN /\ iter < MaxIter
            /\ StartPass(iter + 1)
            /\ sat' = sat \cup {plan.auto[i].name : i \in 1..Len(plan.auto)}
            /\ Step("step", FALSE)
            /\ UNCHANGED <<ws, recheck, plan, ci, runlog, asked, cdResult,
                           initResult, mainEnd, out, failure>>
       ELSE /\ UNCHANGED <<iter, recheck, to_install, pi, plan, approved,
                           iterAsked, asked, sat>>
            /\ IF IsComment(cmds[ci]) THEN SkipComment ELSE Execute("install_failed")
    /\ UNCHANGED <<wsMode, osinfo, PRE_INSTALL_RUNNED, cmds, preview, preRuns,
                   batches, bannerIters>>
    /\ UNCHANGED fnVars

\* ---------------------------------------------------------- process ending

\* The with statement ends normally: tmp_dir() resumes after its yield and
\* calls fs_del(TMP_DIR). An exception of fs_del leaves the with statement
\* and ends the process.
Release ==
    /\ pc = "release"
    /\ \E shred \in [FilePaths(ws) -> ShredOutcomes \cup {INT}] :
          LET r == fs_del(ROOT, ws, shred)
          IN  /\ ws' = r.tree
              /\ wsMode' = IF Exists(ROOT, r.tree) THEN wsMode ELSE {}
              /\ pc' = IF r.raised THEN "crashed" ELSE "farewell"
              /\ Step(IF ~r.raised THEN "step"
                      ELSE IF \E f \in FilePaths(ws) : shred[f] = INT THEN INT
                      ELSE "raised", FALSE)
    /\ UNCHANGED <<osinfo, PRE_INSTALL_RUNNED, loopVars, runVars, cdResult,
                   initResult, mainEnd, out, passVars, countVars>>
    /\ UNCHANGED fnVars

\* print("\nBye")
Farewell ==
    /\ pc = "farewell"
    /\ pc' = "exited"
    /\ out' = out \cup {"BYE"}
    /\ Step("step", FALSE)
    /\ UNCHANGED <<wsVars, osinfo, PRE_INSTALL_RUNNED, loopVars, runVars, cdResult,
                   initResult, mainEnd, passVars, countVars>>
    /\ UNCHANGED fnVars

Next ==
    \/ Acquire
    \/ DetectOS
    \/ AskOs
    \/ Probe
    \/ Plan
    \/ Acknowledge
    \/ AskInstall
    \/ PreviewPre
    \/ RunPre
    \/ PreviewInstall
    \/ RunInstall
    \/ Release
    \/ Farewell

Spec == Init /\ [][Next]_vars

\* The steps of check_deps. Each is a prompt that the user eventually
\* answers, a subprocess that eventually returns, or code that runs on.
LoopStep ==
    \/ Probe
    \/ Plan
    \/ Acknowledge
    \/ AskInstall
    \/ PreviewPre
    \/ RunPre
    \/ PreviewInstall
    \/ RunInstall

FairSpec == Spec /\ WF_vars(LoopStep)

\* ------------------------------------------------- functions on their own

\* Entries of a command sequence handed to run_cmds on its own.
MaxCmds == 3

\* for cmd in cmds: skip comments, run the rest, stop at the first failure.
\* codes[i] is the exit code the host gives to entry i when it is run; the
\* result carries the returned code and the positions of the entries run.
RECURSIVE RunFrom(_, _, _, _)
RunFrom(t, codes, i, executed) ==
    IF i > Len(t) THEN [code |-> 0, executed |-> executed]
    ELSE IF IsComment(t[i]) THEN RunFrom(t, codes, i + 1, executed)
    ELSE IF RunFailed(codes[i])
         THEN [code |-> codes[i], executed |-> Append(executed, i)]
         ELSE RunFrom(t, codes, i + 1, Append(executed, i))

run_cmds(cs, codes) ==
    IF cs.kind = "none" THEN [code |-> 0, executed |-> <<>>]
    ELSE RunFrom(AsTuple(cs), codes, 1, <<>>)

\* Entries: a command, a comment, a comment behind blanks, a command that
\* carries a "#" further on, and the empty string.
Entries == {<<"true">>, <<"#", "note">>, <<"", "#", "note">>, <<"echo", "#">>,
            <<>>}

\* run_cmds is entered with None, a single string, or a list of entries;
\* the host has an exit code for every entry.
RunCmdsCall ==
    \/ call = [fn |-> "run_cmds", cmds |-> None, codes |-> <<>>]
    \/ \E e \in Entries, c \in Codes :
          call = [fn |-> "run_cmds", cmds |-> Str(e), codes |-> <<c>>]
    \/ \E k \in 0..MaxCmds : \E es \in [1..k -> Entries], cs \in [1..k -> Codes] :
          call = [fn |-> "run_cmds", cmds |-> List(es), codes |-> cs]

\* Candidates handed to chek_can_install on its own.
MaxDeps == 3

\* Packages of the registry, and one whose only recipe is for another distro.
Candidates ==
    {PKGS[i] : i \in 1..Len(PKGS)}
    \cup {[name |-> "pcscd",
           check |-> Str(<<"pcscd", "--version">>),
           install |-> [d \in {Lower(DEBIAN)} |->
                           Str(<<"sudo", "apt", "install", "pcscd">>)]]}

DistroKeys == {TAILS, Lower(DEBIAN), <<>>}

ChekCanInstallCall ==
    \E k \in 0..MaxDeps : \E ds \in [1..k -> Candidates], d \in DistroKeys :
       call = [fn |-> "chek_can_install", deps |-> ds, distro |-> d]

\* Content trees of the workspace: TMP_DIR itself, or nothing at all when
\* it was never made, the directory ykman in it, and files in that directory.
Trees ==
    LET dir == Node("ykman", ROOT, "dir")
        files == {Node(f, "ykman", "file") : f \in {"ykman/AppImage", "ykman/AppImage.sig"}}
    IN  {{}, {RootNode}} \cup {{RootNode, dir} \cup fs : fs \in SUBSET files}

FsDelCall ==
    \E t \in Trees : \E sh \in [FilePaths(t) -> ShredOutcomes] :
       call = [fn |-> "fs_del", path |-> ROOT, tree |-> t, shred |-> sh]

GetOsInfoCall ==
    \E sy \in Systems, v \in Versions, td \in BOOLEAN, ad \in BOOLEAN,
       lg \in Logins :
       call = [fn |-> "get_os_info", sys |-> sy, ver |-> v, tailsDir |-> td,
               amnesiaDir |-> ad, login |-> lg]

\* One of the functions is entered with arguments of its domain.
FnInit ==
    /\ Loaded
    /\ RunCmdsCall \/ ChekCanInstallCall \/ FsDelCall \/ GetOsInfoCall
    /\ ret = NoCall

Return(r) ==
    /\ ret = NoCall
    /\ ret' = r
    /\ UNCHANGED <<pc, wsVars, osinfo, PRE_INSTALL_RUNNED, loopVars, runVars,
                   cdResult, initResult, mainEnd, out, last, passVars, countVars,
                   deviated, call>>

ApplyRunCmds ==
    /\ call.fn = "run_cmds"
    /\ LET r == run_cmds(call.cmds, call.codes)
       IN Return([fn |-> "run_cmds", code |-> r.code, executed |-> r.executed])

ApplyChekCanInstall ==
    /\ call.fn = "chek_can_install"
    /\ LET r == chek_can_install(call.deps, call.distro)
       IN Return([fn |-> "chek_can_install", auto |-> r.auto, manual |-> r.manual])

ApplyFsDel ==
    /\ call.fn = "fs_del"
    /\ LET r == fs_del(call.path, call.tree, call.shred)
       IN Return([fn |-> "fs_del", raised |-> r.raised, tree |-> r.tree])

ApplyGetOsInfo ==
    /\ call.fn = "get_os_info"
    /\ LET r == get_os_info(call.sys, call.ver, call.tailsDir, call.amnesiaDir,
                            call.login)
       IN Return([fn |-> "get_os_info", raised |-> r.raised, os |-> r.os,
                  distro |-> r.distro])

FnNext ==
    \/ ApplyRunCmds
    \/ ApplyChekCanInstall
    \/ ApplyFsDel
    \/ ApplyGetOsInfo

FnSpec == FnInit /\ [][FnNext]_vars

\* ------------------------------------------------------------------ claims

Ended == pc \in {"exited", "crashed"}
AfterMain == pc \in {"release", "farewell", "exited", "crashed"}
PackageNames == {PKGS[i].name : i \in 1..Len(PKGS)}

\* The commands a preview offers: its lines that are not rendered as
\* comments, with the highlighted sudo put back in front.
RECURSIVE Listed(_)
Listed(pv) ==
    IF pv = <<>> THEN <<>>
    ELSE (IF Head(pv).style = "grey" THEN <<>>
          ELSE IF Head(pv).style = "sudo" THEN << <<"sudo">> \o Head(pv).text >>
          ELSE << Head(pv).text >>)
         \o Listed(Tail(pv))

\* C1: when the first probe pass finds every package satisfied, check_deps
\* returns True in that same pass, having issued no prompt and run no
\* pre-install or install command.
C1_FirstPassSatisfied ==
    [][(pc = "probed" /\ iter = 1 /\ to_install = <<>>)
         => /\ cdResult' = "true"
            /\ iter' = 1
            /\ asked' = {}
            /\ runlog' = <<>>
            /\ ~iterRan'
            /\ preRuns' = 0
            /\ batches' = 0]_vars

C1_Witness ==
    cdResult = "true" /\ iter = 1 /\ sat = PackageNames /\ asked = {} /\ pc = "exited"

\* C2: check_deps returns True only from a pass whose own probes found every
\* package satisfied, and a completed install batch never returns: it starts
\* a new probe pass.
C2_SuccessOnlyAfterProbe ==
    /\ [][(cdResult' = "true" /\ cdResult # "true")
            => /\ pc = "probed"
               /\ pi = Len(PKGS)
               /\ to_install = <<>>
               /\ sat = PackageNames]_vars
    /\ [][(pc = "run_install" /\ ci > Len(cmds) /\ pc' # pc)
            => /\ pc' = "probe"
               /\ iter' = iter + 1
               /\ pi' = 1
               /\ to_install' = <<>>
               /\ cdResult' = "none"]_vars

C2_Witness ==
    cdResult = "true" /\ iter = 2 /\ batches = 1 /\ failure = "none"

\* C3: check_deps executes a command only after the user answered Yes, in
\* the same pass, to a preview of ask_execute that lists it; the commands
\* run since that answer are, in order, a prefix of the preview's entries
\* that are not comments.
C3_ExecutedWereApproved ==
    /\ [][(runlog' # runlog /\ runlog' # <<>>)
            => /\ approved # NoPreview
               /\ approved' = approved
               /\ IsPrefix(runlog', Listed(approved))]_vars
    /\ [][(approved' # approved /\ approved' # NoPreview)
            => /\ pc \in {"preview_pre", "preview_install"}
               /\ last'.ev = YES
               /\ approved' = preview
               /\ iter' = iter
               /\ runlog' = <<>>]_vars
    /\ [][iter' # iter => approved' = NoPreview]_vars

C3_Witness ==
    pc = "run_install" /\ Len(runlog) = 8 /\ approved # NoPreview /\ iter = 2

\* C4: a No answered inside check_deps (to "install them?", to the preview
\* of the pre-install command, to the preview of the install batch) never
\* makes check_deps fail: the loop waits for the acknowledgement and probes
\* again.
C4_DeclineNeverFails ==
    (last.ev = NO /\ last.at \in {"ask_install", "preview_pre", "preview_install"})
        => (cdResult = "none" /\ pc = "ack")

\* C5: a non-zero exit code of the pre-install command or of a command of
\* the install batch makes check_deps return False in that pass; after that
\* it probes nothing, asks nothing and runs nothing, and after a failed
\* pre-install no install batch has run.
C5_FailureIsFinal ==
    /\ [][(pc \in {"run_pre", "run_install"} /\ last'.at = pc
           /\ last'.ev \in {"1", "127"})
            => /\ cdResult' = "false"
               /\ iter' = iter
               /\ failure' = (IF pc = "run_pre" THEN "pre_failed" ELSE "install_failed")
               /\ pc' = "release"]_vars
    /\ [][(failure \in {"pre_failed", "install_failed"})
            => /\ AfterMain'
               /\ (UNCHANGED <<cdResult, failure, loopVars, runVars, passVars,
                               preRuns, batches>>)]_vars
    /\ [](failure = "pre_failed" => batches = 0 /\ "preview_install" \notin asked)

C5_Witness ==
    failure = "pre_failed" /\ pc = "exited" /\ last.at = "farewell"

\* C6: in a pass where a missing package has no recipe for the detected
\* distribution, check_deps asks no consent and runs no command, also when
\* other missing packages are auto-installable; after the acknowledgement
\* it probes again.
C6_ManualBlocksInstall ==
    /\ [][(pc = "probed"
           /\ \E i \in 1..Len(to_install) :
                 osinfo.distro \notin DOMAIN to_install[i].install)
            => /\ pc' = "ack"
               /\ iterAsked' = {"ack"}
               /\ ~iterRan'
               /\ Len(plan'.manual) > 0]_vars
    /\ [](pc = "ack" /\ Len(plan.manual) > 0
            => iterAsked = {"ack"} /\ ~iterRan /\ approved = NoPreview)
    /\ [][(pc = "ack" /\ Len(plan.manual) > 0 /\ last'.at = "ack" /\ last'.ev = "line")
            => /\ pc' = "probe"
               /\ iter' = iter + 1
               /\ pi' = 1
               /\ (UNCHANGED <<ws, runlog, preRuns, batches, PRE_INSTALL_RUNNED>>)]_vars

C6_Witness ==
    /\ pc = "probe"
    /\ last = [at |-> "ack", ev |-> "line"]
    /\ Len(plan.manual) > 0
    /\ Len(plan.auto) > 0
    /\ iter = 2

\* C7: the pre-install command is executed at most once in a process,
\* whatever the number of passes, and PRE_INSTALL_RUNNED never goes back
\* to False.
C7_PreInstallOnce ==
    /\ [](preRuns <= 1)
    /\ [][PRE_INSTALL_RUNNED => PRE_INSTALL_RUNNED']_vars
    /\ [](preRuns > 0 => PRE_INSTALL_RUNNED)

C7_Witness ==
    preRuns = 1 /\ batches = 2 /\ iter = 2 /\ pc = "run_install" /\ ci > 1

\* C9: the workspace exists with owner-only permissions from its creation
\* until main has ended, and is gone when the process has ended after main
\* returned or was interrupted by the user.
C9_WorkspaceLifetime ==
    /\ (pc \notin {"start", "exited", "crashed"} /\ mainEnd = "running")
          => (Exists(ROOT, ws) /\ wsMode = OwnerBits)
    /\ (Ended /\ mainEnd \in {"returned", "interrupted"}
        /\ ~(last.at = "release" /\ last.ev = INT))
          => ~Exists(ROOT, ws)

\* C10: when main ends with an error that is not a user interruption, the
\* workspace is removed before the process ends.
C10_ReleasedAfterError ==
    (Ended /\ mainEnd = "error") => ~Exists(ROOT, ws)

\* The commands of a recipe list that are not comments.
RECURSIVE Commands(_)
Commands(cs) ==
    IF cs = <<>> THEN <<>>
    ELSE (IF Head(Head(cs)) = "#" THEN <<>> ELSE <<Head(cs)>>) \o Commands(Tail(cs))

RECURSIVE RecipesOf(_, _)
RecipesOf(deps, distro) ==
    IF deps = <<>> THEN <<>>
    ELSE LET r == Head(deps).install[distro]
         IN  (IF r.kind = "str" THEN <<r.val>> ELSE r.val)
             \o RecipesOf(Tail(deps), distro)

\* C8: on a stable host (a package found satisfied or installed with
\* success is satisfied at the next probe) where every missing package is
\* auto-installable, the user answers Yes at every yes/no prompt and every
\* command returns 0, check_deps eventually returns True; when packages
\* were missing it has then run exactly one install batch, in its first
\* pass, made of each install command of the missing packages once.
\* deviated records that one of these hypotheses was broken.
C8_HappyPathInstallsOnce ==
    /\ (iter >= 1) ~> (deviated \/ cdResult = "true")
    /\ [](~deviated /\ pc \in {"ask_install", "preview_pre", "run_pre",
                                "preview_install", "run_install"}
            => iter = 1 /\ plan.auto = to_install /\ plan.manual = <<>>)
    /\ [](~deviated /\ cdResult = "true" /\ iter > 1
            => /\ iter = 2
               /\ batches = 1
               /\ preRuns = 1
               /\ runlog = Commands(RecipesOf(plan.auto, osinfo.distro))
               /\ sat = PackageNames)

C8_Witness ==
    /\ ~deviated
    /\ cdResult = "true"
    /\ batches = 1
    /\ Len(plan.auto) = 1
    /\ plan.auto[1].name = "ykman"
    /\ Len(runlog) = 8
    /\ pc = "exited"

\* C11: every run that ends has printed the farewell line, after the
\* workspace was released, whatever way main ended and also when main or
\* the release raised an error.
C11_FarewellAlways ==
    Ended => ("BYE" \in out /\ ~Exists(ROOT, ws) /\ last.at = "farewell")

LoopPlaces == {"probe", "ack", "ask_install", "preview_pre", "run_pre",
               "preview_install", "run_install"}

\* C12: a user interruption at a probe, prompt or command of check_deps ends
\* check_deps for good (no further probe, prompt or command), init returns
\* True and main reaches the step after provisioning; an interruption
\* outside check_deps (the prompt of check_os, the release) ends the run
\* and that step is not reached by it or after it.
C12_InterruptSkipsDeps ==
    /\ [][(pc \in LoopPlaces /\ last'.at = pc /\ last'.ev = INT)
            => /\ cdResult' = "interrupted"
               /\ initResult' = "true"
               /\ mainEnd' = "returned"
               /\ {"DEPS_INTERRUPTED", "BEGIN_MSG"} \subseteq out'
               /\ "INTERRUPTED" \notin out'
               /\ pc' = "release"
               /\ (UNCHANGED <<loopVars, runVars, iterAsked, asked, approved>>)]_vars
    /\ [][(cdResult = "interrupted")
            => /\ AfterMain'
               /\ (UNCHANGED <<cdResult, initResult, loopVars, runVars, passVars,
                               preRuns, batches>>)]_vars
    /\ [][(pc \notin LoopPlaces /\ last'.at = pc /\ last'.ev = INT)
            => /\ pc' \in {"release", "crashed"}
               /\ mainEnd' # "running"
               /\ initResult' = initResult
               /\ (("BEGIN_MSG" \in out') <=> ("BEGIN_MSG" \in out))]_vars
    /\ [](mainEnd = "interrupted"
            => "BEGIN_MSG" \notin out /\ "INTERRUPTED" \in out /\ iter = 0
               /\ initResult = "none")

C12_Witness ==
    /\ cdResult = "interrupted"
    /\ last = [at |-> "run_install", ev |-> INT]
    /\ "BEGIN_MSG" \in out
    /\ Len(runlog) = 3

C12_WitnessOutside ==
    mainEnd = "interrupted" /\ pc = "exited" /\ "BYE" \in out

\* A "#" is the first thing on the line, blanks aside.
HashFirst(cmd) ==
    \E i \in 1..Len(cmd) : cmd[i] = "#" /\ \A j \in 1..(i - 1) : cmd[j] = ""

\* The entries run_cmds was handed, as a sequence.
Given ==
    IF call.cmds.kind = "none" THEN <<>>
    ELSE IF call.cmds.kind = "str" THEN <<call.cmds.val>>
    ELSE call.cmds.val

NoteEntries == {i \in 1..Len(Given) : HashFirst(Given[i])}
RealEntries == {i \in 1..Len(Given) : ~HashFirst(Given[i])}
Increasing(s) == \A i, j \in 1..Len(s) : i < j => s[i] < s[j]
Range(s) == {s[i] : i \in 1..Len(s)}

\* C13: run_cmds stops at the first command that fails: it returns the exit
\* code of the first executed command whose code is not 0 and runs nothing
\* after it; when none fails, or the sequence is null or empty, it returns 0
\* and every entry that is not a comment has been run exactly once, in order.
C13_ShortCircuit ==
    (ret.fn = "run_cmds") =>
        LET bad == {i \in RealEntries : call.codes[i] # 0}
            stop == IF bad = {} THEN Len(Given)
                    ELSE CHOOSE i \in bad : \A j \in bad : i <= j
        IN /\ ret.code = (IF bad = {} THEN 0 ELSE call.codes[stop])
           /\ Increasing(ret.executed)
           /\ Range(ret.executed) = {i \in RealEntries : i <= stop}

\* A list of three commands whose second fails: the third is not run.
C13_Witness ==
    /\ ret.fn = "run_cmds"
    /\ call.cmds.kind = "list"
    /\ Len(Given) = 3
    /\ RealEntries = {1, 2, 3}
    /\ call.codes = <<0, 127, 0>>
    /\ ret.code = 127
    /\ ret.executed = <<1, 2>>

\* C14: an entry whose text, blanks trimmed, starts with "#" is never run by
\* run_cmds and has no influence on the code it returns, wherever the entry
\* stands and whether the commands came as one string or as a list.
C14_CommentsInert ==
    (ret.fn = "run_cmds") =>
        /\ Range(ret.executed) \cap NoteEntries = {}
        /\ \A i \in NoteEntries : \A c \in Codes :
              run_cmds(call.cmds, [call.codes EXCEPT ![i] = c]).code = ret.code
        /\ (RealEntries = {}) => ret.code = 0

\* A comment behind blanks stands between two commands; it would have
\* failed, the commands around it ran and the result is 0.
C14_Witness ==
    /\ ret.fn = "run_cmds"
    /\ call.cmds.kind = "list"
    /\ Given = <<(<<"true">>), (<<"", "#", "note">>), (<<"echo", "#">>)>>
    /\ call.codes = <<0, 1, 0>>
    /\ ret.code = 0
    /\ ret.executed = <<1, 3>>

\* The only command is a comment given as a single string.
C14_WitnessStr ==
    /\ ret.fn = "run_cmds"
    /\ call.cmds.kind = "str"
    /\ NoteEntries = {1}
    /\ call.codes = <<127>>
    /\ ret.code = 0
    /\ ret.executed = <<>>

AskPlaces == {"ask_os", "ask_install", "preview_pre", "preview_install"}
Previews == {"preview_pre", "preview_install"}

\* What the program holds, as opposed to the record of the last step.
programVars == <<pc, wsVars, osinfo, PRE_INSTALL_RUNNED, loopVars, runVars,
                 cdResult, initResult, mainEnd, out, passVars, countVars>>

\* The caller of ask() went on as it does on True, on False.
ReturnedTrue ==
    \/ pc = "ask_os" /\ pc' = "probe" /\ iter' = 1
    \/ pc = "ask_install" /\ PRE_INSTALL_RUNNED' /\ pc' \in Previews
    \/ pc \in Previews /\ pc' \in {"run_pre", "run_install"} /\ approved' = preview

ReturnedFalse ==
    \/ pc = "ask_os" /\ pc' = "release" /\ initResult' = "false"
    \/ pc = "ask_install" /\ pc' = "ack"
    \/ pc \in Previews /\ cdResult' = "false" /\ "FAILED" \in out'
                       /\ failure' \in {"pre_declined", "install_declined"}

\* C15: ask() returns true only on the exact line "Yes" and false only on
\* the exact line "No"; on any other line ("y", "yes", "no", the empty line)
\* it returns nothing and prompts again, no program state changes and no
\* command runs; it returns at the first "Yes" or "No" it reads.
C15_ExactTokens ==
    [][(pc \in AskPlaces)
         => /\ last'.at = pc
            /\ (ReturnedTrue <=> last'.ev = YES)
            /\ (ReturnedFalse <=> last'.ev = NO)
            /\ (last'.ev \in (Lines \ {YES, NO}) => (UNCHANGED programVars))]_vars

\* The preview of the install batch was answered "yes": the prompt stands
\* again, the batch is neither approved nor begun.
C15_Witness ==
    /\ pc = "preview_install"
    /\ last = [at |-> "preview_install", ev |-> "yes"]
    /\ approved # preview
    /\ batches = 0

\* sub lists, in order, exactly the entries of s at the positions in at.
SelectedAt(sub, s, at) ==
    /\ Len(sub) = Cardinality(at)
    /\ \E f \in [1..Len(sub) -> at] :
          /\ \A i, j \in 1..Len(sub) : i < j => f[i] < f[j]
          /\ \A i \in 1..Len(sub) : sub[i] = s[f[i]]

\* C16: chek_can_install returns two lists that share no package and
\* together hold exactly the candidates, each in the order of the
\* candidates; a candidate is in the first list iff the distro key is a key
\* of its recipes.  (The function only reads its arguments: the two lists
\* are built afresh, and the call is compared with the arguments as given.)
C16_Partition ==
    (ret.fn = "chek_can_install") =>
        LET deps == call.deps
            has == {i \in 1..Len(deps) : call.distro \in DOMAIN deps[i].install}
        IN /\ SelectedAt(ret.auto, deps, has)
           /\ SelectedAt(ret.manual, deps, (1..Len(deps)) \ has)
           /\ Range(ret.auto) \cap Range(ret.manual) = {}
           /\ Range(ret.auto) \cup Range(ret.manual) = Range(deps)

\* Three candidates on Debian: the one with a Debian recipe stands between
\* two without; it alone is installable, the other two keep their order.
C16_Witness ==
    /\ ret.fn = "chek_can_install"
    /\ call.distro = Lower(DEBIAN)
    /\ Len(call.deps) = 3
    /\ call.deps[1].name = "ykman"
    /\ call.deps[2].name = "pcscd"
    /\ call.deps[3].name = "gnupg"
    /\ Len(ret.auto) = 1
    /\ ret.auto[1].name = "pcscd"
    /\ Len(ret.manual) = 2
    /\ ret.manual[1].name = "ykman"
    /\ ret.manual[2].name = "gnupg"

\* C17 as stated: the list of unsatisfied packages is printed in the first
\* pass of the loop and in no later pass, whatever the earlier passes did.
C17_ListFirstPassOnly == bannerIters \subseteq {1}

\* C17, amended: a pass that finds unsatisfied packages prints their list
\* unless the pass before it ended at the manual-install block; so the first
\* pass prints it, a pass after a manual block does not, and a pass after a
\* declined or a completed installation prints it again.  Nothing else
\* prints the list.
C17_ListUnlessManualBlock ==
    /\ [][(pc = "probed" /\ pc' \in {"ack", "ask_install"})
            => /\ bannerIters' \ {iter} = bannerIters
               /\ (iter \in bannerIters') <=> (iter = 1 \/ plan.manual = <<>>)]_vars
    /\ [][(pc # "probed" \/ pc' \notin {"ack", "ask_install"})
            => bannerIters' = bannerIters]_vars

\* The installation was declined in the first pass, the second pass printed
\* the list again and was blocked, the third pass has planned without it.
C17_Witness ==
    /\ bannerIters = {1, 2}
    /\ iter = 3
    /\ pc = "ack"
    /\ plan.manual # <<>>

PreInstallRefused == {"pre_declined", "pre_failed"}

\* C18: on a distro with a registered pre-install command, whenever a batch
\* install command runs the pre-install command has run before in this
\* process and returned 0; once the flag is set and the pre-install command
\* was declined or failed, no batch install command runs any more.
C18_PreInstallBeforeBatch ==
    /\ []((osinfo.distro \in DOMAIN PRE_INSTALL
            /\ (pc \in {"preview_install", "run_install"} \/ batches > 0))
           => (PRE_INSTALL_RUNNED /\ preRuns = 1 /\ failure \notin PreInstallRefused))
    /\ [][(pc = "run_pre" /\ pc' = "preview_install")
            => (preRuns = 1 /\ last = [at |-> "run_pre", ev |-> "0"])]_vars
    /\ [][(pc = "run_pre" /\ preRuns' > preRuns /\ last'.ev # "0")
            => (pc' = "release" /\ batches' = 0)]_vars
    /\ [](failure \in PreInstallRefused => (PRE_INSTALL_RUNNED /\ batches = 0))
    /\ [][(failure \in PreInstallRefused)
            => (AfterMain' /\ batches' = batches /\ runlog' = runlog)]_vars

\* The second batch runs its commands; the pre-install command ran once,
\* before the first batch.
C18_Witness ==
    /\ osinfo.distro \in DOMAIN PRE_INSTALL
    /\ pc = "run_install"
    /\ batches = 2
    /\ preRuns = 1
    /\ Len(runlog) = 2
    /\ last.ev = "0"

\* The pre-install command failed: check_deps is over and no batch began.
C18_WitnessFailed ==
    /\ failure = "pre_failed"
    /\ PRE_INSTALL_RUNNED
    /\ pc = "exited"
    /\ batches = 0

\* C19: for every content tree of the workspace and every outcome of the
\* wipe utility on each file (success, failure, utility absent), fs_del
\* ends without raising and leaves neither the workspace directory nor any
\* entry beneath it.
C19_DeletesWhateverShredDid ==
    (ret.fn = "fs_del") => (~ret.raised /\ ret.tree = {})

\* The text of s before, after the first occurrence of character c.
Before(s, c) ==
    LET at == {i \in 1..Len(s) : s[i] = c}
    IN  IF at = {} THEN s
        ELSE SubSeq(s, 1, (CHOOSE i \in at : \A j \in at : i <= j) - 1)

After(s, c) ==
    LET at == {i \in 1..Len(s) : s[i] = c}
    IN  IF at = {} THEN <<>>
        ELSE SubSeq(s, (CHOOSE i \in at : \A j \in at : i <= j) + 1, Len(s))

\* C20: on Linux that is not classified as Tails, get_os_info returns a
\* lower-cased distro key for every version string: without a hyphen in it
\* the key is the first blank-delimited token of the version string, lower-
\* cased; otherwise the text after the first hyphen up to its first blank,
\* lower-cased.
C20_DistroKey ==
    (ret.fn = "get_os_info" /\ ~ret.raised /\ ret.os = LINUX /\ ret.distro # TAILS)
        => /\ ret.distro = Lower(ret.distro)
           /\ ret.distro = IF "-" \in Range(call.ver)
                           THEN Lower(Before(After(call.ver, "-"), " "))
                           ELSE Lower(Before(call.ver, " "))
====
